---- MODULE Spec2Model ----
(***************************************************************************)
(* Schema coordinates of graphql-js: the SchemaCoordinateLexer             *)
(* (language/schemaCoordinateLexer.ts), parseSchemaCoordinate              *)
(* (language/schemaCoordinate.ts) and resolveASTSchemaCoordinate           *)
(* (utilities/resolveSchemaCoordinate.ts).                                 *)
(*                                                                         *)
(* A source body is a sequence of one-character strings; "BOM" stands for  *)
(* the single code unit U+FEFF.  Offsets are 0-based as in the code, the   *)
(* sequences of TLA+ are 1-based.                                          *)
(***************************************************************************)
EXTENDS Integers, Sequences, FiniteSets, TLC

VARIABLES source, node, chain, tokenIdx, lastIdx, ret, schema, resolved, lookups

vars == <<source, node, chain, tokenIdx, lastIdx, ret, schema, resolved, lookups>>

(***************************************************************************)
(* Bounds of the checked inputs.                                           *)
(***************************************************************************)
\* every body of at most MaxLen characters over Alphabet is an input
MaxLen == 3
\* the Names put into the grammar's productions have at most MaxNameLen characters
MaxNameLen == 2
\* a schema holds at most MaxTypes named types
MaxTypes == 1
\* a type holds at most MaxFields fields (input fields, enum values)
MaxFields == 1

(***************************************************************************)
(* Characters.                                                             *)
(***************************************************************************)
BOM == "BOM"

Letters == {"a"}

Digits == {"1"}

Punctuators == {".", "(", ")", ":", "@"}

Whitespace == {" ", "\t", "\n"}

Alphabet == Letters \cup {"_"} \cup Digits \cup Punctuators \cup Whitespace \cup {BOM}

isNameStart(c) == c \in Letters \cup {"_"}

isNameContinue(c) == c \in Letters \cup Digits \cup {"_"}

Min(a, b) == IF a < b THEN a ELSE b

Max(a, b) == IF a > b THEN a ELSE b

(***************************************************************************)
(* String primitives of the host language, on sequences of characters.     *)
(***************************************************************************)
\* String.prototype.slice(from, to): negative indices count from the end
slice(s, a, b) ==
  LET n    == Len(s)
      from == IF a < 0 THEN Max(n + a, 0) ELSE Min(a, n)
      to   == IF b < 0 THEN Max(n + b, 0) ELSE Min(b, n)
  IN  IF from >= to THEN << >> ELSE SubSeq(s, from + 1, to)

\* String.prototype.slice(from)
sliceFrom(s, a) == slice(s, a, Len(s))

\* String.prototype.startsWith(p)
startsWith(s, p) == Len(s) >= Len(p) /\ SubSeq(s, 1, Len(p)) = p

\* String.prototype.endsWith(p)
endsWith(s, p) == Len(s) >= Len(p) /\ SubSeq(s, Len(s) - Len(p) + 1, Len(s)) = p

\* String.prototype.split('.'): the pieces between the dots, always at least one
RECURSIVE split(_)
split(s) ==
  IF \A i \in 1..Len(s) : s[i] # "."
  THEN <<s>>
  ELSE LET i == CHOOSE k \in 1..Len(s) : s[k] = "." /\ \A j \in 1..(k - 1) : s[j] # "."
       IN  <<SubSeq(s, 1, i - 1)>> \o split(SubSeq(s, i + 1, Len(s)))

(***************************************************************************)
(* Errors and tokens.                                                      *)
(***************************************************************************)
Source(body) == [tag |-> "Source", body |-> body]

isSource(src) == src.tag = "Source"

Undefined == <<"undefined">>

IsError(x) == x.kind = "GraphQLError"

\* getLocation: the line is 1 + the line breaks before the position
getLocation(body, position) ==
  LET breaks == {i \in 1..Min(position, Len(body)) : body[i] = "\n"}
      lineStart == IF breaks = {} THEN 0 ELSE CHOOSE i \in breaks : \A j \in breaks : j <= i
  IN  [line |-> 1 + Cardinality(breaks), column |-> position + 1 - lineStart]

\* error/syntaxError.js: a GraphQLError located at one position of the source
lexerSyntaxError(body, position, description) ==
  [kind      |-> "GraphQLError",
   message   |-> "Syntax Error: " \o description,
   source    |-> Source(body),
   positions |-> <<position>>,
   locations |-> <<getLocation(body, position)>>]

\* the parser's own syntaxError(source, description): no position is passed
syntaxError(sourceObj, description) ==
  [kind      |-> "GraphQLError",
   message   |-> "Syntax Error: " \o description,
   source    |-> sourceObj,
   positions |-> << >>,
   locations |-> << >>]

\* printCodePointAt: <EOF> past the end, the quoted character when it is
\* printable ASCII, U+XXXX otherwise
printCodePointAt(body, location) ==
  IF location >= Len(body) THEN "<EOF>"
  ELSE LET c == body[location + 1]
       IN  CASE c = "\n" -> "U+000A"
             [] c = "\t" -> "U+0009"
             [] c = BOM  -> "U+FEFF"
             [] OTHER    -> "\"" \o c \o "\""

createToken(kind, start, end, value) ==
  [kind |-> kind, start |-> start, end |-> end, value |-> value]

\* the end of the maximal run of name characters that begins at offset start
RECURSIVE nameEnd(_, _)
nameEnd(body, position) ==
  IF position < Len(body) /\ isNameContinue(body[position + 1])
  THEN nameEnd(body, position + 1)
  ELSE position

\* lexer.js readName: a NAME token needs a name-start character at start and
\* spans the maximal run of name characters
lexerReadName(body, start) ==
  IF start < Len(body) /\ isNameStart(body[start + 1])
  THEN LET end == nameEnd(body, start + 1)
       IN  createToken("Name", start, end, slice(body, start, end))
  ELSE lexerSyntaxError(body, start,
         "Invalid character: " \o printCodePointAt(body, start) \o ".")

(***************************************************************************)
(* parseSchemaCoordinate.                                                  *)
(***************************************************************************)
readName(body) == lexerReadName(body, 0)

readNameOnly_noTrailingCheck(body) == lexerReadName(body, 0)

readNameOnly(body) ==
  LET token == lexerReadName(body, 0)
  IN  IF IsError(token) THEN token
      ELSE IF Len(body) > token.end
      THEN syntaxError(Source(body),
             "Invalid character: " \o printCodePointAt(body, token.end))
      ELSE token

NameNode(value) == [kind |-> "Name", value |-> value]

TypeCoordinateNode(name) ==
  [kind |-> "TypeCoordinate", name |-> NameNode(name)]

MemberCoordinateNode(name, memberName) ==
  [kind       |-> "MemberCoordinate",
   memberName |-> NameNode(memberName),
   name       |-> NameNode(name)]

ArgumentCoordinateNode(name, fieldName, argumentName) ==
  [kind         |-> "ArgumentCoordinate",
   name         |-> NameNode(name),
   fieldName    |-> NameNode(fieldName),
   argumentName |-> NameNode(argumentName)]

DirectiveCoordinateNode(name) ==
  [kind |-> "DirectiveCoordinate", name |-> NameNode(name)]

DirectiveArgumentCoordinateNode_asArgument(name, argumentName) ==
  [kind         |-> "ArgumentCoordinate",
   argumentName |-> NameNode(argumentName),
   name         |-> NameNode(name)]

DirectiveArgumentCoordinateNode(name, argumentName) ==
  [kind         |-> "DirectiveArgumentCoordinate",
   argumentName |-> NameNode(argumentName),
   name         |-> NameNode(name)]

isArgumentClause_endOnly(argument) == endsWith(argument, <<":", ")">>)

\* argument.startsWith('(') && argument.endsWith(':)')
isArgumentClause(argument) ==
  startsWith(argument, <<"(">>) /\ endsWith(argument, <<":", ")">>)

argumentNameOf_keepColon(argument) == readNameOnly(slice(argument, 1, -1))

argumentNameOf_readName(argument) == readName(slice(argument, 1, -2))

\* readNameOnly(argument.slice(1, -2)): the Name between '(' and ':)'
argumentNameOf(argument) == readNameOnly(slice(argument, 1, -2))

\* names.length === 1 and names[0] starts with '@'
parseDirectiveFamily(sourceObj, names) ==
  LET name     == readName(sliceFrom(names[1], 1))
      argument == sliceFrom(names[1], 1 + name.end)
  IN  IF IsError(name) THEN name
      ELSE IF Len(argument) = 0
      THEN DirectiveCoordinateNode(name.value)
      ELSE IF ~isArgumentClause(argument)
      THEN syntaxError(sourceObj, "Unexpected characters")
      ELSE LET argumentValue == argumentNameOf(argument)
           IN  IF IsError(argumentValue) THEN argumentValue
               ELSE DirectiveArgumentCoordinateNode(name.value, argumentValue.value)

parseTypeCoordinate_unlexed(sourceObj, names) == TypeCoordinateNode(names[1])

\* names.length === 1 and names[0] does not start with '@'
parseTypeCoordinate(sourceObj, names) ==
  LET name == readNameOnly(names[1])
  IN  IF IsError(name) THEN name ELSE TypeCoordinateNode(name.value)

\* names.length === 2
parseMemberFamily(sourceObj, names) ==
  LET typeName  == readNameOnly(names[1])
      fieldName == readName(names[2])
      argument  == sliceFrom(names[2], fieldName.end)
  IN  IF IsError(typeName) THEN typeName
      ELSE IF IsError(fieldName) THEN fieldName
      ELSE IF Len(argument) = 0
      THEN MemberCoordinateNode(typeName.value, fieldName.value)
      ELSE IF ~isArgumentClause(argument)
      THEN syntaxError(sourceObj, "Unexpected characters")
      ELSE LET argumentValue == argumentNameOf(argument)
           IN  IF IsError(argumentValue) THEN argumentValue
               ELSE ArgumentCoordinateNode(typeName.value, fieldName.value,
                                           argumentValue.value)

parseSchemaCoordinate_twoOrMore(sourceObj) ==
  LET names == split(sourceObj.body)
  IN  IF Len(names) = 1
      THEN IF startsWith(names[1], <<"@">>)
           THEN parseDirectiveFamily(sourceObj, names)
           ELSE parseTypeCoordinate(sourceObj, names)
      ELSE parseMemberFamily(sourceObj, names)

parseSchemaCoordinate(sourceObj) ==
  LET names == split(sourceObj.body)
  IN  IF Len(names) = 1
      THEN IF startsWith(names[1], <<"@">>)
           THEN parseDirectiveFamily(sourceObj, names)
           ELSE parseTypeCoordinate(sourceObj, names)
      ELSE IF Len(names) = 2
      THEN parseMemberFamily(sourceObj, names)
      ELSE syntaxError(sourceObj, "Expected <EOF>, found ..")

\* the text of a node: the shape of its production around its Names
print(n) ==
  CASE n.kind = "TypeCoordinate" -> n.name.value
    [] n.kind = "MemberCoordinate" -> n.name.value \o <<".">> \o n.memberName.value
    [] n.kind = "ArgumentCoordinate" ->
         n.name.value \o <<".">> \o n.fieldName.value
           \o <<"(">> \o n.argumentName.value \o <<":", ")">>
    [] n.kind = "DirectiveCoordinate" -> <<"@">> \o n.name.value
    [] n.kind = "DirectiveArgumentCoordinate" ->
         <<"@">> \o n.name.value \o <<"(">> \o n.argumentName.value \o <<":", ")">>

(***************************************************************************)
(* The schema: a set of named types and a set of directives.  A type has a *)
(* kind, a name, its fields (input fields) in order and its enum values;   *)
(* a field and a directive have their arguments in order.  owner tells     *)
(* equally named members of different owners apart.                        *)
(***************************************************************************)
UndefinedValue == [kind |-> "undefined"]

\* schema.getType(name)
getType(sch, name) ==
  IF \E t \in sch.types : t.name = name
  THEN CHOOSE t \in sch.types : t.name = name
  ELSE UndefinedValue

\* schema.getDirective(name)
getDirective(sch, name) ==
  IF \E d \in sch.directives : d.name = name
  THEN CHOOSE d \in sch.directives : d.name = name
  ELSE UndefinedValue

isEnumType(type) == type.kind = "Enum"

isInputObjectType(type) == type.kind = "InputObject"

isObjectType(type) == type.kind = "Object"

isInterfaceType(type) == type.kind = "Interface"

\* Array.prototype.find((x) => x.name === name): the first element of that name
find(list, name) ==
  IF \E i \in 1..Len(list) : list[i].name = name
  THEN list[CHOOSE i \in 1..Len(list) :
              list[i].name = name /\ \A j \in 1..(i - 1) : list[j].name # name]
  ELSE UndefinedValue

\* type.getValue(name) of an enum type
getValue(type, name) == find(type.values, name)

\* type.getFields()[name]
getFieldsAt(type, name) == find(type.fields, name)

RECURSIVE textOf(_)
textOf(chars) == IF chars = << >> THEN "" ELSE Head(chars) \o textOf(Tail(chars))

\* inspect of a string: the string in double quotes
inspect(name) == "\"" \o textOf(name) \o "\""

Error(message) == [kind |-> "Error", message |-> message]

(***************************************************************************)
(* resolveASTSchemaCoordinate and the five resolvers it dispatches to.     *)
(***************************************************************************)
resolveDirectiveCoordinate_asserts(sch, schemaCoordinate) ==
  LET directiveName == schemaCoordinate.name.value
      directive     == getDirective(sch, directiveName)
  IN  IF directive = UndefinedValue
      THEN Error("Expected " \o inspect(directiveName)
                   \o " to be defined as a directive in the schema.")
      ELSE [kind |-> "Directive", directive |-> directive]

resolveDirectiveCoordinate(sch, schemaCoordinate) ==
  LET directiveName == schemaCoordinate.name.value
      directive     == getDirective(sch, directiveName)
  IN  IF directive = UndefinedValue
      THEN UndefinedValue
      ELSE [kind |-> "Directive", directive |-> directive]

resolveDirectiveArgumentCoordinate_missingDirectiveIsUndefined(sch, schemaCoordinate) ==
  LET directiveName == schemaCoordinate.name.value
      directive     == getDirective(sch, directiveName)
  IN  IF directive = UndefinedValue
      THEN UndefinedValue
      ELSE LET directiveArgumentName == schemaCoordinate.argumentName.value
               directiveArgument     == find(directive.args, directiveArgumentName)
           IN  IF directiveArgument = UndefinedValue
               THEN UndefinedValue
               ELSE [kind              |-> "DirectiveArgument",
                     directive         |-> directive,
                     directiveArgument |-> directiveArgument]

resolveDirectiveArgumentCoordinate(sch, schemaCoordinate) ==
  LET directiveName == schemaCoordinate.name.value
      directive     == getDirective(sch, directiveName)
  IN  IF directive = UndefinedValue
      THEN Error("Expected " \o inspect(directiveName)
                   \o " to be defined as a directive in the schema.")
      ELSE LET directiveArgumentName == schemaCoordinate.argumentName.value
               directiveArgument     == find(directive.args, directiveArgumentName)
           IN  IF directiveArgument = UndefinedValue
               THEN UndefinedValue
               ELSE [kind              |-> "DirectiveArgument",
                     directive         |-> directive,
                     directiveArgument |-> directiveArgument]

resolveTypeCoordinate(sch, schemaCoordinate) ==
  LET typeName == schemaCoordinate.name.value
      type     == getType(sch, typeName)
  IN  IF type = UndefinedValue
      THEN UndefinedValue
      ELSE [kind |-> "NamedType", type |-> type]

resolveMemberCoordinate_noKindAssert(sch, schemaCoordinate) ==
  LET typeName   == schemaCoordinate.name.value
      type       == getType(sch, typeName)
      memberName == schemaCoordinate.memberName.value
  IN  IF type = UndefinedValue
      THEN Error("Expected " \o inspect(typeName) \o " to be defined as a type in the schema.")
      ELSE IF isEnumType(type)
      THEN LET enumValue == getValue(type, memberName)
           IN  IF enumValue = UndefinedValue THEN UndefinedValue
               ELSE [kind |-> "EnumValue", type |-> type, enumValue |-> enumValue]
      ELSE IF isInputObjectType(type)
      THEN LET inputField == getFieldsAt(type, memberName)
           IN  IF inputField = UndefinedValue THEN UndefinedValue
               ELSE [kind |-> "InputField", type |-> type, inputField |-> inputField]
      ELSE LET field == getFieldsAt(type, memberName)
           IN  IF field = UndefinedValue THEN UndefinedValue
               ELSE [kind |-> "Field", type |-> type, field |-> field]

resolveMemberCoordinate_inputFieldAsField(sch, schemaCoordinate) ==
  LET typeName   == schemaCoordinate.name.value
      type       == getType(sch, typeName)
      memberName == schemaCoordinate.memberName.value
  IN  IF type = UndefinedValue
      THEN Error("Expected " \o inspect(typeName) \o " to be defined as a type in the schema.")
      ELSE IF isEnumType(type)
      THEN LET enumValue == getValue(type, memberName)
           IN  IF enumValue = UndefinedValue THEN UndefinedValue
               ELSE [kind |-> "EnumValue", type |-> type, enumValue |-> enumValue]
      ELSE IF ~isObjectType(type) /\ ~isInterfaceType(type) /\ ~isInputObjectType(type)
      THEN Error("Expected " \o inspect(typeName)
                   \o " to be an object type, interface type, input object type, or enum type.")
      ELSE LET field == getFieldsAt(type, memberName)
           IN  IF field = UndefinedValue THEN UndefinedValue
               ELSE [kind |-> "Field", type |-> type, field |-> field]

resolveMemberCoordinate_missingTypeIsUndefined(sch, schemaCoordinate) ==
  LET typeName   == schemaCoordinate.name.value
      type       == getType(sch, typeName)
      memberName == schemaCoordinate.memberName.value
  IN  IF type = UndefinedValue
      THEN UndefinedValue
      ELSE IF isEnumType(type)
      THEN LET enumValue == getValue(type, memberName)
           IN  IF enumValue = UndefinedValue THEN UndefinedValue
               ELSE [kind |-> "EnumValue", type |-> type, enumValue |-> enumValue]
      ELSE IF isInputObjectType(type)
      THEN LET inputField == getFieldsAt(type, memberName)
           IN  IF inputField = UndefinedValue THEN UndefinedValue
               ELSE [kind |-> "InputField", type |-> type, inputField |-> inputField]
      ELSE IF ~isObjectType(type) /\ ~isInterfaceType(type)
      THEN Error("Expected " \o inspect(typeName)
                   \o " to be an object type, interface type, input object type, or enum type.")
      ELSE LET field == getFieldsAt(type, memberName)
           IN  IF field = UndefinedValue THEN UndefinedValue
               ELSE [kind |-> "Field", type |-> type, field |-> field]

resolveMemberCoordinate_missingFieldThrows(sch, schemaCoordinate) ==
  LET typeName   == schemaCoordinate.name.value
      type       == getType(sch, typeName)
      memberName == schemaCoordinate.memberName.value
  IN  IF type = UndefinedValue
      THEN Error("Expected " \o inspect(typeName) \o " to be defined as a type in the schema.")
      ELSE IF isEnumType(type)
      THEN LET enumValue == getValue(type, memberName)
           IN  IF enumValue = UndefinedValue THEN UndefinedValue
               ELSE [kind |-> "EnumValue", type |-> type, enumValue |-> enumValue]
      ELSE IF isInputObjectType(type)
      THEN LET inputField == getFieldsAt(type, memberName)
           IN  IF inputField = UndefinedValue THEN UndefinedValue
               ELSE [kind |-> "InputField", type |-> type, inputField |-> inputField]
      ELSE IF ~isObjectType(type) /\ ~isInterfaceType(type)
      THEN Error("Expected " \o inspect(typeName)
                   \o " to be an object type, interface type, input object type, or enum type.")
      ELSE LET field == getFieldsAt(type, memberName)
           IN  IF field = UndefinedValue
               THEN Error("Expected " \o inspect(memberName) \o " to exist as a field of type "
                            \o inspect(typeName) \o " in the schema.")
               ELSE [kind |-> "Field", type |-> type, field |-> field]

resolveMemberCoordinate(sch, schemaCoordinate) ==
  LET typeName   == schemaCoordinate.name.value
      type       == getType(sch, typeName)
      memberName == schemaCoordinate.memberName.value
  IN  IF type = UndefinedValue
      THEN Error("Expected " \o inspect(typeName) \o " to be defined as a type in the schema.")
      ELSE IF isEnumType(type)
      THEN LET enumValue == getValue(type, memberName)
           IN  IF enumValue = UndefinedValue THEN UndefinedValue
               ELSE [kind |-> "EnumValue", type |-> type, enumValue |-> enumValue]
      ELSE IF isInputObjectType(type)
      THEN LET inputField == getFieldsAt(type, memberName)
           IN  IF inputField = UndefinedValue THEN UndefinedValue
               ELSE [kind |-> "InputField", type |-> type, inputField |-> inputField]
      ELSE IF ~isObjectType(type) /\ ~isInterfaceType(type)
      THEN Error("Expected " \o inspect(typeName)
                   \o " to be an object type, interface type, input object type, or enum type.")
      ELSE LET field == getFieldsAt(type, memberName)
           IN  IF field = UndefinedValue THEN UndefinedValue
               ELSE [kind |-> "Field", type |-> type, field |-> field]

resolveArgumentCoordinate_missingFieldIsUndefined(sch, schemaCoordinate) ==
  LET typeName  == schemaCoordinate.name.value
      type      == getType(sch, typeName)
      fieldName == schemaCoordinate.fieldName.value
  IN  IF type = UndefinedValue
      THEN Error("Expected " \o inspect(typeName) \o " to be defined as a type in the schema.")
      ELSE IF ~isObjectType(type) /\ ~isInterfaceType(type)
      THEN Error("Expected " \o inspect(typeName)
                   \o " to be an object type or interface type.")
      ELSE LET field == getFieldsAt(type, fieldName)
           IN  IF field = UndefinedValue
               THEN UndefinedValue
               ELSE LET fieldArgumentName == schemaCoordinate.argumentName.value
                        fieldArgument     == find(field.args, fieldArgumentName)
                    IN  IF fieldArgument = UndefinedValue THEN UndefinedValue
                        ELSE [kind          |-> "FieldArgument",
                              type          |-> type,
                              field         |-> field,
                              fieldArgument |-> fieldArgument]

resolveArgumentCoordinate_firstArgument(sch, schemaCoordinate) ==
  LET typeName  == schemaCoordinate.name.value
      type      == getType(sch, typeName)
      fieldName == schemaCoordinate.fieldName.value
  IN  IF type = UndefinedValue
      THEN Error("Expected " \o inspect(typeName) \o " to be defined as a type in the schema.")
      ELSE IF ~isObjectType(type) /\ ~isInterfaceType(type)
      THEN Error("Expected " \o inspect(typeName)
                   \o " to be an object type or interface type.")
      ELSE LET field == getFieldsAt(type, fieldName)
           IN  IF field = UndefinedValue
               THEN Error("Expected " \o inspect(fieldName) \o " to exist as an argument of type "
                            \o inspect(typeName) \o " in the schema.")
               ELSE IF field.args = << >> THEN UndefinedValue
                    ELSE [kind          |-> "FieldArgument",
                          type          |-> type,
                          field         |-> field,
                          fieldArgument |-> field.args[1]]

resolveArgumentCoordinate(sch, schemaCoordinate) ==
  LET typeName  == schemaCoordinate.name.value
      type      == getType(sch, typeName)
      fieldName == schemaCoordinate.fieldName.value
  IN  IF type = UndefinedValue
      THEN Error("Expected " \o inspect(typeName) \o " to be defined as a type in the schema.")
      ELSE IF ~isObjectType(type) /\ ~isInterfaceType(type)
      THEN Error("Expected " \o inspect(typeName)
                   \o " to be an object type or interface type.")
      ELSE LET field == getFieldsAt(type, fieldName)
           IN  IF field = UndefinedValue
               THEN Error("Expected " \o inspect(fieldName) \o " to exist as an argument of type "
                            \o inspect(typeName) \o " in the schema.")
               ELSE LET fieldArgumentName == schemaCoordinate.argumentName.value
                        fieldArgument     == find(field.args, fieldArgumentName)
                    IN  IF fieldArgument = UndefinedValue THEN UndefinedValue
                        ELSE [kind          |-> "FieldArgument",
                              type          |-> type,
                              field         |-> field,
                              fieldArgument |-> fieldArgument]

resolveASTSchemaCoordinate(sch, schemaCoordinate) ==
  CASE schemaCoordinate.kind = "DirectiveCoordinate" ->
         resolveDirectiveCoordinate(sch, schemaCoordinate)
    [] schemaCoordinate.kind = "DirectiveArgumentCoordinate" ->
         resolveDirectiveArgumentCoordinate(sch, schemaCoordinate)
    [] schemaCoordinate.kind = "TypeCoordinate" ->
         resolveTypeCoordinate(sch, schemaCoordinate)
    [] schemaCoordinate.kind = "MemberCoordinate" ->
         resolveMemberCoordinate(sch, schemaCoordinate)
    [] schemaCoordinate.kind = "ArgumentCoordinate" ->
         resolveArgumentCoordinate(sch, schemaCoordinate)

\* the calls to the schema that resolveASTSchemaCoordinate makes, in order
lookup(call, name) == [call |-> call, name |-> name]

lookupsOf(sch, schemaCoordinate) ==
  LET name == schemaCoordinate.name.value
      type == getType(sch, name)
  IN  CASE schemaCoordinate.kind \in {"DirectiveCoordinate", "DirectiveArgumentCoordinate"} ->
             <<lookup("getDirective", name)>>
        [] schemaCoordinate.kind = "TypeCoordinate" ->
             <<lookup("getType", name)>>
        [] schemaCoordinate.kind = "MemberCoordinate" ->
             <<lookup("getType", name)>> \o
               (IF type = UndefinedValue THEN << >>
                ELSE IF isEnumType(type)
                THEN <<lookup("getValue", schemaCoordinate.memberName.value)>>
                ELSE IF isInputObjectType(type)
                THEN <<lookup("getFields", schemaCoordinate.memberName.value)>>
                ELSE IF ~isObjectType(type) /\ ~isInterfaceType(type) THEN << >>
                ELSE <<lookup("getFields", schemaCoordinate.memberName.value)>>)
        [] schemaCoordinate.kind = "ArgumentCoordinate" ->
             <<lookup("getType", name)>> \o
               (IF type = UndefinedValue THEN << >>
                ELSE IF ~isObjectType(type) /\ ~isInterfaceType(type) THEN << >>
                ELSE <<lookup("getFields", schemaCoordinate.fieldName.value)>>)

(***************************************************************************)
(* SchemaCoordinateLexer.  chain is the linked list of tokens from SOF     *)
(* along the next pointers; chain[tokenIdx] is lexer.token and             *)
(* chain[lastIdx] is lexer.lastToken.  A token that lookahead() linked     *)
(* behind the current one is chain[tokenIdx + 1].                          *)
(***************************************************************************)
\* the first offset at or after position that holds no whitespace
RECURSIVE skipIgnored(_, _)
skipIgnored(body, position) ==
  IF position < Len(body) /\ body[position + 1] \in Whitespace
  THEN skipIgnored(body, position + 1)
  ELSE position

readNextToken_skipsWhitespace(body, start) ==
  LET bodyLength == Len(body)
      position   == skipIgnored(body, start)
  IN  IF position < bodyLength
      THEN LET code == body[position + 1]
           IN  IF code \in Punctuators
               THEN createToken(code, position, position + 1, Undefined)
               ELSE IF isNameStart(code)
               THEN lexerReadName(body, position)
               ELSE lexerSyntaxError(body, position,
                      "Invalid character: " \o printCodePointAt(body, position) \o ".")
      ELSE createToken("<EOF>", bodyLength, bodyLength, Undefined)

readNextToken_parenSlip(body, start) ==
  LET bodyLength == Len(body)
      position   == start
  IN  IF position < bodyLength
      THEN LET code == body[position + 1]
           IN  CASE code = "." -> createToken(".", position, position + 1, Undefined)
                 [] code = "(" -> createToken("(", position, position + 1, Undefined)
                 [] code = ")" -> createToken("(", position, position + 1, Undefined)
                 [] code = ":" -> createToken(":", position, position + 1, Undefined)
                 [] code = "@" -> createToken("@", position, position + 1, Undefined)
                 [] OTHER ->
                      IF isNameStart(code)
                      THEN lexerReadName(body, position)
                      ELSE lexerSyntaxError(body, position,
                             "Invalid character: " \o printCodePointAt(body, position) \o ".")
      ELSE createToken("<EOF>", bodyLength, bodyLength, Undefined)

readNextToken(body, start) ==
  LET bodyLength == Len(body)
      position   == start
  IN  IF position < bodyLength
      THEN LET code == body[position + 1]
           IN  CASE code = "." -> createToken(".", position, position + 1, Undefined)
                 [] code = "(" -> createToken("(", position, position + 1, Undefined)
                 [] code = ")" -> createToken(")", position, position + 1, Undefined)
                 [] code = ":" -> createToken(":", position, position + 1, Undefined)
                 [] code = "@" -> createToken("@", position, position + 1, Undefined)
                 [] OTHER ->
                      IF isNameStart(code)
                      THEN lexerReadName(body, position)
                      ELSE lexerSyntaxError(body, position,
                             "Invalid character: " \o printCodePointAt(body, position) \o ".")
      ELSE createToken("<EOF>", bodyLength, bodyLength, Undefined)

startOfFileToken == createToken("<SOF>", 0, 0, Undefined)

\* the outcome of lookahead() in the current state: a token or a thrown error
lookaheadToken ==
  LET token == chain[tokenIdx]
  IN  IF token.kind # "<EOF>" THEN readNextToken(source.body, token.end) ELSE token

\* the chain after lookahead() linked nextToken behind the current token
linked(nextToken) == SubSeq(chain, 1, tokenIdx) \o <<nextToken>>

advance_pastEOF ==
  LET token == lookaheadToken
  IN  /\ lastIdx' = tokenIdx
      /\ ret' = [op |-> "advance", value |-> token]
      /\ IF IsError(token)
         THEN UNCHANGED <<chain, tokenIdx>>
         ELSE chain' = linked(token) /\ tokenIdx' = tokenIdx + 1
      /\ UNCHANGED <<source, node, schema, resolved, lookups>>

advance_keepsLastToken ==
  LET token == lookaheadToken
  IN  /\ ret' = [op |-> "advance", value |-> token]
      /\ IF IsError(token)
         THEN UNCHANGED <<chain, tokenIdx>>
         ELSE IF chain[tokenIdx].kind = "<EOF>"
         THEN UNCHANGED <<chain, tokenIdx>>
         ELSE chain' = linked(token) /\ tokenIdx' = tokenIdx + 1
      /\ UNCHANGED <<source, node, lastIdx, schema, resolved, lookups>>

advance ==
  LET token == lookaheadToken
  IN  /\ lastIdx' = tokenIdx
      /\ ret' = [op |-> "advance", value |-> token]
      /\ IF IsError(token)
         THEN UNCHANGED <<chain, tokenIdx>>
         ELSE IF chain[tokenIdx].kind = "<EOF>"
         THEN UNCHANGED <<chain, tokenIdx>>
         ELSE chain' = linked(token) /\ tokenIdx' = tokenIdx + 1
      /\ UNCHANGED <<source, node, schema, resolved, lookups>>

lookahead_consumes ==
  LET token == lookaheadToken
  IN  /\ ret' = [op |-> "lookahead", value |-> token]
      /\ IF IsError(token) \/ chain[tokenIdx].kind = "<EOF>"
         THEN UNCHANGED <<chain, tokenIdx>>
         ELSE chain' = linked(token) /\ tokenIdx' = tokenIdx + 1
      /\ UNCHANGED <<source, node, lastIdx, schema, resolved, lookups>>

lookahead ==
  LET token == lookaheadToken
  IN  /\ ret' = [op |-> "lookahead", value |-> token]
      /\ IF IsError(token) \/ chain[tokenIdx].kind = "<EOF>"
         THEN UNCHANGED chain
         ELSE chain' = linked(token)
      /\ UNCHANGED <<source, node, tokenIdx, lastIdx, schema, resolved, lookups>>

\* the tokens that advance() returns from offset start on, up to the EOF token
\* or up to the error that ends the lexing
RECURSIVE tokensFrom(_, _)
tokensFrom(body, start) ==
  LET token == readNextToken(body, start)
  IN  IF IsError(token) \/ token.kind = "<EOF>"
      THEN <<token>>
      ELSE <<token>> \o tokensFrom(body, token.end)

(***************************************************************************)
(* resolveSchemaCoordinate: the parseSchemaCoordinate of language/parser.js *)
(* over the token stream, then resolveASTSchemaCoordinate.                 *)
(***************************************************************************)
\* the kind of a token, followed by its value when it has one
getTokenDesc(token) ==
  IF token.value # Undefined
  THEN token.kind \o " \"" \o textOf(token.value) \o "\""
  ELSE token.kind

\* the element of a set of one element; in Only({e(x) : x \in {v}}) the value
\* v of a call is held by the local x that e reads
Only(S) == CHOOSE x \in S : TRUE

\* the token at offset start when it is of the kind, an error otherwise
expectToken(body, start, kind) ==
  Only({IF IsError(token) THEN token
        ELSE IF token.kind = kind THEN token
        ELSE lexerSyntaxError(body, token.start,
               "Expected " \o kind \o ", found " \o getTokenDesc(token) \o ".")
        : token \in {readNextToken(body, start)}})

\* Name : ) and the end of the input behind the "(" that ends at offset start:
\* the NAME token, or the first error
parseArgumentName(body, start) ==
  Only({IF IsError(name) THEN name
        ELSE Only({IF IsError(colon) THEN colon
                   ELSE Only({IF IsError(paren) THEN paren
                              ELSE Only({IF IsError(eof) THEN eof ELSE name
                                         : eof \in {expectToken(body, paren.end, "<EOF>")}})
                              : paren \in {expectToken(body, colon.end, ")")}})
                   : colon \in {expectToken(body, name.end, ":")}})
        : name \in {expectToken(body, start, "Name")}})

\* what follows the last Name of the coordinate, which ends at offset start:
\* the NAME token of ( Name : ), or the <EOF> token, or the first error
parseTail(body, start) ==
  Only({IF IsError(next) THEN next
        ELSE IF next.kind = "(" THEN parseArgumentName(body, next.end)
        ELSE expectToken(body, start, "<EOF>")
        : next \in {readNextToken(body, start)}})

\* @ Name and @ Name ( Name : ), behind the "@" that ends at offset start
parserDirectiveFamily(body, start) ==
  Only({IF IsError(name) THEN name
        ELSE Only({IF IsError(tail) THEN tail
                   ELSE IF tail.kind = "Name"
                   THEN DirectiveArgumentCoordinateNode(name.value, tail.value)
                   ELSE DirectiveCoordinateNode(name.value)
                   : tail \in {parseTail(body, name.end)}})
        : name \in {expectToken(body, start, "Name")}})

\* Name . Name and Name . Name ( Name : ), behind the "." that ends at offset
\* start; name is the NAME token before the "."
parserMemberFamily(body, start, name) ==
  Only({IF IsError(member) THEN member
        ELSE Only({IF IsError(tail) THEN tail
                   ELSE IF tail.kind = "Name"
                   THEN ArgumentCoordinateNode(name.value, member.value, tail.value)
                   ELSE MemberCoordinateNode(name.value, member.value)
                   : tail \in {parseTail(body, member.end)}})
        : member \in {expectToken(body, start, "Name")}})

\* Name, Name . Name and Name . Name ( Name : ), from offset 0
parserTypeFamily(body) ==
  Only({IF IsError(name) THEN name
        ELSE Only({IF IsError(dot) THEN dot
                   ELSE IF dot.kind = "." THEN parserMemberFamily(body, dot.end, name)
                   ELSE Only({IF IsError(eof) THEN eof ELSE TypeCoordinateNode(name.value)
                              : eof \in {expectToken(body, name.end, "<EOF>")}})
                   : dot \in {readNextToken(body, name.end)}})
        : name \in {expectToken(body, 0, "Name")}})

\* parseSchemaCoordinate of language/parser.js: the node, or the thrown error
parserParseSchemaCoordinate(src) ==
  Only({Only({IF IsError(first) THEN first
              ELSE IF first.kind = "@"
              THEN parserDirectiveFamily(sourceObj.body, first.end)
              ELSE parserTypeFamily(sourceObj.body)
              : first \in {readNextToken(sourceObj.body, 0)}})
        : sourceObj \in {IF isSource(src) THEN src ELSE Source(src.body)}})

resolveSchemaCoordinate_notFoundOnSyntaxError(sch, schemaCoordinate) ==
  LET parsed == parserParseSchemaCoordinate(schemaCoordinate)
  IN  IF IsError(parsed) THEN UndefinedValue
      ELSE resolveASTSchemaCoordinate(sch, parsed)

\* the argument is evaluated first: an error thrown by the parser leaves
\* resolveASTSchemaCoordinate uncalled
resolveSchemaCoordinate(sch, schemaCoordinate) ==
  LET parsed == parserParseSchemaCoordinate(schemaCoordinate)
  IN  IF IsError(parsed) THEN parsed
      ELSE resolveASTSchemaCoordinate(sch, parsed)

(***************************************************************************)
(* Inputs.                                                                 *)
(***************************************************************************)
StringsUpTo(S, n) == UNION {[1..k -> S] : k \in 0..n}

\* the valid Names of at most MaxNameLen characters
Names == {s \in StringsUpTo(Letters \cup Digits \cup {"_"}, MaxNameLen) :
            Len(s) >= 1 /\ isNameStart(s[1])}

\* the Names used where a production is combined with further text
SampleNames == {<<"a">>, <<"_", "1">>}

TypeText(t) == t

MemberText(t, m) == t \o <<".">> \o m

ArgumentText(t, f, a) == t \o <<".">> \o f \o <<"(">> \o a \o <<":", ")">>

DirectiveText(d) == <<"@">> \o d

DirectiveArgumentText(d, a) == <<"@">> \o d \o <<"(">> \o a \o <<":", ")">>

CanonicalTexts(N) ==
  {TypeText(t) : t \in N}
    \cup {MemberText(t, m) : t \in N, m \in N}
    \cup {ArgumentText(t, f, a) : t \in N, f \in N, a \in N}
    \cup {DirectiveText(d) : d \in N}
    \cup {DirectiveArgumentText(d, a) : d \in N, a \in N}

\* a canonical text with one character inserted, replaced or removed
EditedTexts ==
  UNION {   {SubSeq(s, 1, i) \o <<c>> \o SubSeq(s, i + 1, Len(s)) :
               i \in 0..Len(s), c \in Alphabet}
       \cup {SubSeq(s, 1, i - 1) \o <<c>> \o SubSeq(s, i + 1, Len(s)) :
               i \in 1..Len(s), c \in Alphabet}
       \cup {SubSeq(s, 1, i - 1) \o SubSeq(s, i + 1, Len(s)) : i \in 1..Len(s)}
     : s \in CanonicalTexts(SampleNames)}

\* a canonical text followed by a further '.Name' segment
ExtraSegmentTexts ==
  {s \o <<".">> \o n : s \in CanonicalTexts(SampleNames), n \in SampleNames}

\* an argument clause that carries a value after the colon
ValueTexts ==
  UNION {{t \o <<"(">> \o a \o <<":">> \o sep \o v \o <<")">> :
            a \in SampleNames, v \in SampleNames, sep \in {<< >>, <<" ">>}}
     : t \in {MemberText(x, f) : x \in SampleNames, f \in SampleNames}
             \cup {DirectiveText(d) : d \in SampleNames}}

ParserInputs ==
  StringsUpTo(Alphabet, MaxLen) \cup CanonicalTexts(Names) \cup EditedTexts
    \cup ExtraSegmentTexts \cup ValueTexts

LexerInputs ==
  StringsUpTo(Alphabet, MaxLen) \cup CanonicalTexts(SampleNames)
    \cup {<<BOM>> \o s : s \in CanonicalTexts(SampleNames)}

\* the lists of at most n elements of S, no element twice
DistinctLists(S, n) ==
  {l \in StringsUpTo(S, n) : \A i \in 1..Len(l) : \A j \in 1..Len(l) : i # j => l[i] # l[j]}

\* the arguments of one owner (a field or a directive), in every order
ArgLists(owner) ==
  {[i \in 1..Len(l) |-> [name |-> l[i], owner |-> owner]] :
     l \in DistinctLists(SampleNames, Cardinality(SampleNames))}

\* the fields of an object or interface type: any arguments
FieldLists(typeName) ==
  UNION {{f \in [1..Len(l) -> UNION {{[name |-> n, owner |-> typeName, args |-> a] :
                                        a \in ArgLists(<<typeName, n>>)} : n \in SampleNames}] :
            \A i \in 1..Len(l) : f[i].name = l[i]}
     : l \in DistinctLists(SampleNames, MaxFields)}

\* the input fields of an input object type, the values of an enum type
MemberLists(typeName) ==
  {[i \in 1..Len(l) |-> [name |-> l[i], owner |-> typeName]] :
     l \in DistinctLists(SampleNames, MaxFields)}

\* the types a schema can hold under one name
TypesNamed(n) ==
       {[kind |-> k, name |-> n, fields |-> << >>, values |-> << >>] : k \in {"Scalar", "Union"}}
  \cup {[kind |-> "Enum", name |-> n, fields |-> << >>, values |-> v] : v \in MemberLists(n)}
  \cup {[kind |-> "InputObject", name |-> n, fields |-> f, values |-> << >>] :
          f \in MemberLists(n)}
  \cup {[kind |-> k, name |-> n, fields |-> f, values |-> << >>] :
          k \in {"Object", "Interface"}, f \in FieldLists(n)}

DirectivesNamed(n) ==
  {[kind |-> "Directive", name |-> n, args |-> a] : a \in ArgLists(<<"@", n>>)}

\* the sets of at most k types of different names
RECURSIVE TypeSets(_)
TypeSets(k) ==
  IF k = 0 THEN {{}}
  ELSE LET smaller == TypeSets(k - 1)
       IN  smaller \cup
             {x \cup {t} : x \in smaller,
                           t \in UNION {TypesNamed(n) : n \in SampleNames}}

\* the schemas: at most MaxTypes types of different names, at most one directive
Schemas ==
  {[types |-> ts, directives |-> ds] :
     ts \in {x \in TypeSets(MaxTypes) : \A t \in x : \A u \in x : t.name = u.name => t = u},
     ds \in {{}} \cup {{d} : d \in UNION {DirectivesNamed(n) : n \in SampleNames}}}

\* the syntax nodes handed to the resolver
CoordinateNodes ==
       {TypeCoordinateNode(t) : t \in SampleNames}
  \cup {MemberCoordinateNode(t, m) : t \in SampleNames, m \in SampleNames}
  \cup {ArgumentCoordinateNode(t, f, a) :
          t \in SampleNames, f \in SampleNames, a \in SampleNames}
  \cup {DirectiveCoordinateNode(d) : d \in SampleNames}
  \cup {DirectiveArgumentCoordinateNode(d, a) : d \in SampleNames, a \in SampleNames}

\* the texts handed to resolveSchemaCoordinate: the text of every syntax node,
\* every text of at most one character, a third segment, a blank
ResolverTexts ==
  {print(n) : n \in CoordinateNodes} \cup StringsUpTo(Alphabet, 1)
    \cup {<<"a", ".", "a", ".", "a">>, <<"a", " ">>, <<"@", "a", "(", "a", ")">>}

\* as a string, or (a Name, a blank, the empty text) wrapped in a Source
ResolverSources ==
       {[tag |-> "string", body |-> b] : b \in ResolverTexts}
  \cup {Source(b) : b \in {<<"a">>, <<" ">>, << >>}}

\* the schemas against which sequences of calls are made: the type and the
\* directive are named a, fields and directives have every argument, the
\* argument a first
CallSchemas ==
  {s \in Schemas :
     /\ \A t \in s.types :
          /\ t.name = <<"a">>
          /\ t.kind \in {"Object", "Interface"} =>
               \A i \in 1..Len(t.fields) :
                 /\ Len(t.fields[i].args) = Cardinality(SampleNames)
                 /\ t.fields[i].args[1].name = <<"a">>
     /\ \A d \in s.directives :
          /\ d.name = <<"a">>
          /\ Len(d.args) = Cardinality(SampleNames)
          /\ d.args[1].name = <<"a">>}

\* a schema without types and directives, where no schema is involved
NoSchema == [types |-> {}, directives |-> {}]

(***************************************************************************)
(* Specifications.                                                         *)
(***************************************************************************)
\* a lexer as its constructor leaves it
LexerConstructed ==
  /\ chain = <<startOfFileToken>>
  /\ tokenIdx = 1
  /\ lastIdx = 1
  /\ ret = [op |-> "none"]

\* parseSchemaCoordinate is called once, with a string or with a Source
InitParse ==
  /\ source \in {[tag |-> t, body |-> b] : t \in {"string", "Source"}, b \in ParserInputs}
  /\ node = [kind |-> "pending"]
  /\ LexerConstructed
  /\ schema = NoSchema
  /\ resolved = [kind |-> "unused"]
  /\ lookups = << >>

Parse ==
  /\ node.kind = "pending"
  /\ LET sourceObj == IF isSource(source) THEN source ELSE Source(source.body)
     IN  node' = parseSchemaCoordinate(sourceObj)
  /\ UNCHANGED <<source, chain, tokenIdx, lastIdx, ret, schema, resolved, lookups>>

NextParse == Parse

SpecParse == InitParse /\ [][NextParse]_vars

\* a SchemaCoordinateLexer over a Source, driven by advance() and lookahead()
InitLex ==
  /\ source \in {Source(b) : b \in LexerInputs}
  /\ node = [kind |-> "unused"]
  /\ LexerConstructed
  /\ schema = NoSchema
  /\ resolved = [kind |-> "unused"]
  /\ lookups = << >>

NextLex == advance \/ lookahead

SpecLex == InitLex /\ [][NextLex]_vars

\* resolveASTSchemaCoordinate is called once, with a schema and a syntax node
InitResolve ==
  /\ schema \in Schemas
  /\ node \in CoordinateNodes
  /\ source = Source(print(node))
  /\ resolved = [kind |-> "pending"]
  /\ lookups = << >>
  /\ LexerConstructed

ResolveAST ==
  /\ resolved.kind = "pending"
  /\ resolved' = resolveASTSchemaCoordinate(schema, node)
  /\ lookups' = lookupsOf(schema, node)
  /\ UNCHANGED <<source, node, chain, tokenIdx, lastIdx, ret, schema>>

NextResolve == ResolveAST

SpecResolve == InitResolve /\ [][NextResolve]_vars

\* one schema, against which resolveSchemaCoordinate and
\* resolveASTSchemaCoordinate are called any number of times, in any order;
\* source and node hold the argument of the last call (node the node that
\* the text of resolveSchemaCoordinate parsed to), ret the last two calls
InitCalls ==
  /\ schema \in CallSchemas
  /\ source = Source(<< >>)
  /\ node = [kind |-> "unused"]
  /\ resolved = [kind |-> "pending"]
  /\ lookups = << >>
  /\ chain = <<startOfFileToken>>
  /\ tokenIdx = 1
  /\ lastIdx = 1
  /\ ret = [op |-> "none", previous |-> "none"]

CallResolveSchemaCoordinate ==
  \E src \in ResolverSources :
    LET parsed == parserParseSchemaCoordinate(src)
    IN  /\ source' = src
        /\ node' = parsed
        /\ resolved' = resolveSchemaCoordinate(schema, src)
        /\ lookups' = IF IsError(parsed) THEN << >> ELSE lookupsOf(schema, parsed)
        /\ ret' = [op |-> "resolveSchemaCoordinate", previous |-> ret.op]
        /\ UNCHANGED <<chain, tokenIdx, lastIdx, schema>>

CallResolveASTSchemaCoordinate_cachedByName ==
  \E schemaCoordinate \in CoordinateNodes :
    /\ source' = Source(<< >>)
    /\ node' = schemaCoordinate
    /\ resolved' = IF /\ ret.op = "resolveASTSchemaCoordinate"
                      /\ node.name = schemaCoordinate.name
                   THEN resolved
                   ELSE resolveASTSchemaCoordinate(schema, schemaCoordinate)
    /\ lookups' = lookupsOf(schema, schemaCoordinate)
    /\ ret' = [op |-> "resolveASTSchemaCoordinate", previous |-> ret.op]
    /\ UNCHANGED <<chain, tokenIdx, lastIdx, schema>>

CallResolveASTSchemaCoordinate ==
  \E schemaCoordinate \in CoordinateNodes :
    /\ source' = Source(<< >>)
    /\ node' = schemaCoordinate
    /\ resolved' = resolveASTSchemaCoordinate(schema, schemaCoordinate)
    /\ lookups' = lookupsOf(schema, schemaCoordinate)
    /\ ret' = [op |-> "resolveASTSchemaCoordinate", previous |-> ret.op]
    /\ UNCHANGED <<chain, tokenIdx, lastIdx, schema>>

NextCalls == CallResolveSchemaCoordinate \/ CallResolveASTSchemaCoordinate

SpecCalls == InitCalls /\ [][NextCalls]_vars

(***************************************************************************)
(* Properties of parseSchemaCoordinate (SpecParse).                        *)
(***************************************************************************)
body == source.body

Parsed == node.kind # "pending"

Accepted == Parsed /\ ~IsError(node)

Rejected == Parsed /\ IsError(node)

IsName(value) ==
  /\ Len(value) >= 1
  /\ isNameStart(value[1])
  /\ \A i \in 1..Len(value) : isNameContinue(value[i])

\* the Names a node holds
NamesOf(n) ==
  CASE n.kind \in {"TypeCoordinate", "DirectiveCoordinate"} -> {n.name.value}
    [] n.kind = "MemberCoordinate" -> {n.name.value, n.memberName.value}
    [] n.kind = "ArgumentCoordinate" ->
         {n.name.value, n.fieldName.value, n.argumentName.value}
    [] n.kind = "DirectiveArgumentCoordinate" -> {n.name.value, n.argumentName.value}

TypeTexts == {TypeText(t) : t \in Names}

MemberTexts == {MemberText(t, m) : t \in Names, m \in Names}

ArgumentTexts == {ArgumentText(t, f, a) : t \in Names, f \in Names, a \in Names}

DirectiveTexts == {DirectiveText(d) : d \in Names}

DirectiveArgumentTexts == {DirectiveArgumentText(d, a) : d \in Names, a \in Names}

KindOfCanonical(text) ==
  CASE text \in TypeTexts -> "TypeCoordinate"
    [] text \in MemberTexts -> "MemberCoordinate"
    [] text \in ArgumentTexts -> "ArgumentCoordinate"
    [] text \in DirectiveTexts -> "DirectiveCoordinate"
    [] text \in DirectiveArgumentTexts -> "DirectiveArgumentCoordinate"
    [] OTHER -> "none"

\* C1: the canonical text of each of the five productions, over valid Names,
\* parses to a node of that production's kind whose Names are the Names of the
\* text, and printing the node gives the text back.
C1_CanonicalRoundTrip ==
  (Parsed /\ KindOfCanonical(body) # "none") =>
     /\ ~IsError(node)
     /\ node.kind = KindOfCanonical(body)
     /\ \A v \in NamesOf(node) : IsName(v)
     /\ print(node) = body

C1_Witness ==
  /\ Parsed
  /\ body = ArgumentText(<<"a">>, <<"_", "1">>, <<"a", "1">>)
  /\ node = ArgumentCoordinateNode(<<"a">>, <<"_", "1">>, <<"a", "1">>)

\* '@' Name '.' Name, over the sample Names
DirectiveMemberTexts ==
  {DirectiveText(d) \o <<".">> \o f : d \in SampleNames, f \in SampleNames}

\* C2: '@d.f' returns no node and fails with 'Syntax Error: Expected <EOF>, found ..'.
C2_DirectiveMemberExpectedEOF ==
  (Parsed /\ body \in DirectiveMemberTexts) =>
     IsError(node) /\ node.message = "Syntax Error: Expected <EOF>, found .."

Has(text, c) == \E i \in 1..Len(text) : text[i] = c

DeepTexts ==
  {s \o <<".">> \o n :
     s \in {MemberText(t, m) : t \in SampleNames, m \in SampleNames}
             \cup {ArgumentText(t, f, a) :
                     t \in SampleNames, f \in SampleNames, a \in SampleNames},
     n \in SampleNames}

\* C7: 'a.b.c', and any input with a further '.' segment after a complete
\* Name.Name or Name.Name(Name:), fails with
\* 'Syntax Error: Expected <EOF>, found ..'.
C7_ThirdSegmentRejected ==
  (Parsed /\ body \in DeepTexts) =>
     IsError(node) /\ node.message = "Syntax Error: Expected <EOF>, found .."

C7_Witness ==
  /\ Rejected
  /\ body = <<"a", ".", "_", "1", ".", "a">>
  /\ node.message = "Syntax Error: Expected <EOF>, found .."

\* Name.Name(Name: Name), over the sample Names
SpaceValueTexts ==
  {MemberText(t, f) \o <<"(">> \o a \o <<":", " ">> \o v \o <<")">> :
     t \in SampleNames, f \in SampleNames, a \in SampleNames, v \in SampleNames}

\* C8: 'T.f(a: v)' fails at the space with
\* 'Syntax Error: Invalid character: " ".'.
C8_ValueFailsAtSpace ==
  (Parsed /\ body \in SpaceValueTexts) =>
     IsError(node) /\ node.message = "Syntax Error: Invalid character: \" \"."

\* C9: every error parseSchemaCoordinate raises carries the offset of the
\* offending character, reported as line 1 and column offset + 1.
C9_ErrorsCarryPosition ==
  Rejected =>
    /\ Len(node.positions) = 1
    /\ node.locations = <<[line |-> 1, column |-> node.positions[1] + 1]>>

(***************************************************************************)
(* Properties of SchemaCoordinateLexer (SpecLex).                          *)
(***************************************************************************)
\* C10: when the body begins with U+FEFF the first advance() does not fail and
\* returns the token that starts at offset 1.
C10_BOMSkipped ==
  (startsWith(body, <<BOM>>) /\ ret.op = "advance" /\ lastIdx = 1) =>
     ~IsError(ret.value) /\ ret.value.start = 1

\* the offset at which the lexer reads its next token
nextOffset == chain[tokenIdx].end

\* the character at nextOffset is no punctuator and no name start
InvalidCharacterAhead ==
  /\ chain[tokenIdx].kind # "<EOF>"
  /\ nextOffset < Len(body)
  /\ body[nextOffset + 1] \notin Punctuators
  /\ ~isNameStart(body[nextOffset + 1])

TokensRead == {chain[i] : i \in 2..Len(chain)}

\* C12: each of . ( ) : @ is lexed as a one-character token of its kind without
\* a value; a maximal run of name characters that begins with a name start is
\* lexed as one NAME token whose value is the text of the run; only NAME tokens
\* carry a value.
C12_TokenShapes ==
  \A t \in TokensRead :
    /\ t.kind # "<EOF>" =>
         LET c == body[t.start + 1]
         IN  /\ c \in Punctuators =>
                  /\ t.kind = (CASE c = "." -> "."
                                 [] c = "(" -> "("
                                 [] c = ")" -> ")"
                                 [] c = ":" -> ":"
                                 [] c = "@" -> "@")
                  /\ t.end = t.start + 1
             /\ isNameStart(c) =>
                  /\ t.kind = "Name"
                  /\ t.end > t.start
                  /\ \A i \in (t.start + 1)..t.end : isNameContinue(body[i])
                  /\ t.end < Len(body) => ~isNameContinue(body[t.end + 1])
                  /\ t.value = SubSeq(body, t.start + 1, t.end)
             /\ c \in Punctuators \/ isNameStart(c)
    /\ (t.value # Undefined) <=> (t.kind = "Name")

C12_Witness ==
  /\ body = ArgumentText(<<"a">>, <<"_", "1">>, <<"a">>)
  /\ Len(chain) = 9
  /\ chain[4] = createToken("Name", 2, 4, <<"_", "1">>)
  /\ chain[5] = createToken("(", 4, 5, Undefined)
  /\ chain[8] = createToken(")", 7, 8, Undefined)
  /\ chain[9].kind = "<EOF>"

\* C13: the lexer starts on SOF; no advance() returns SOF; the tokens come in
\* source order and the EOF token stands at the end of the body; once the
\* current token is EOF every advance() and lookahead() returns that EOF token
\* and the lexer stays on it.
C13_EOFIsAbsorbing ==
  /\ [](/\ chain[1] = startOfFileToken
        /\ ret.op = "none" => tokenIdx = 1 /\ lastIdx = 1
        /\ (ret.op # "none" /\ ~IsError(ret.value)) => ret.value.kind # "<SOF>"
        /\ \A i \in 2..Len(chain) :
             /\ chain[i].kind # "<SOF>"
             /\ chain[i - 1].end <= chain[i].start
             /\ chain[i].kind = "<EOF>" =>
                  i = Len(chain) /\ chain[i].start = Len(body) /\ chain[i].end = Len(body))
  /\ [][chain[tokenIdx].kind = "<EOF>" =>
          /\ tokenIdx' = tokenIdx
          /\ chain' = chain
          /\ ret'.value = chain[tokenIdx]]_vars

C13_Witness ==
  /\ body = MemberText(<<"a">>, <<"a">>)
  /\ tokenIdx = 5
  /\ lastIdx = 5
  /\ chain[tokenIdx].kind = "<EOF>"
  /\ ret.op = "lookahead"
  /\ ret.value = chain[tokenIdx]

\* C14: lookahead() leaves the current token and lastToken as they are, and the
\* advance() (or lookahead()) that follows it returns a token of the same kind,
\* start, end and value, or throws the same error.
C14_LookaheadDoesNotConsume ==
  [][/\ ret'.op = "lookahead" =>
          /\ tokenIdx' = tokenIdx
          /\ lastIdx' = lastIdx
          /\ SubSeq(chain', 1, tokenIdx) = SubSeq(chain, 1, tokenIdx)
     /\ ret.op = "lookahead" => ret'.value = ret.value]_vars

C14_Witness ==
  /\ body = MemberText(<<"a">>, <<"a">>)
  /\ ret.op = "lookahead"
  /\ ret.value = createToken(".", 1, 2, Undefined)
  /\ tokenIdx = 2
  /\ Len(chain) = 3

(***************************************************************************)
(* Properties of resolveASTSchemaCoordinate (SpecResolve).  The expected   *)
(* outcome is read off the schema itself.                                  *)
(***************************************************************************)
Resolved == resolved.kind \notin {"pending", "unused"}

Threw == resolved.kind = "Error"

NotFound == resolved = UndefinedValue

\* the types (directives) of the schema that bear the node's first Name
RootTypes == {t \in schema.types : t.name = node.name.value}

RootDirectives == {d \in schema.directives : d.name = node.name.value}

\* the elements of a list that bear a name
Named(list, name) == {list[i] : i \in {j \in 1..Len(list) : list[j].name = name}}

\* the first element of a list that bears a name
IsFirstNamed(x, list, name) ==
  \E i \in 1..Len(list) :
    /\ list[i] = x
    /\ list[i].name = name
    /\ \A j \in 1..(i - 1) : list[j].name # name

MemberKinds == {"Enum", "InputObject", "Object", "Interface"}

\* C15: resolving a MemberCoordinate raises exactly when the named type is
\* absent or is no Enum, Input Object, Object or Interface type.
C15_MemberRaisesExactly ==
  (Resolved /\ node.kind = "MemberCoordinate") =>
     (Threw <=> (RootTypes = {} \/ \E t \in RootTypes : t.kind \notin MemberKinds))

C15_Witness ==
  /\ Resolved
  /\ node.kind = "MemberCoordinate"
  /\ \E t \in RootTypes : t.kind = "Union"
  /\ Threw

\* C16: for an existing type the result of a MemberCoordinate follows the kind
\* of the type: EnumValue, InputField or Field with the member of that type
\* that bears memberName, and not-found when the type has no such member.
C16_MemberByKind ==
  (Resolved /\ node.kind = "MemberCoordinate") =>
     \A t \in RootTypes :
       LET m == node.memberName.value
       IN  /\ t.kind = "Enum" =>
                IF Named(t.values, m) = {} THEN NotFound
                ELSE /\ resolved.kind = "EnumValue"
                     /\ resolved.type = t
                     /\ resolved.enumValue \in Named(t.values, m)
                     /\ DOMAIN resolved = {"kind", "type", "enumValue"}
           /\ t.kind = "InputObject" =>
                IF Named(t.fields, m) = {} THEN NotFound
                ELSE /\ resolved.kind = "InputField"
                     /\ resolved.type = t
                     /\ resolved.inputField \in Named(t.fields, m)
                     /\ DOMAIN resolved = {"kind", "type", "inputField"}
           /\ t.kind \in {"Object", "Interface"} =>
                IF Named(t.fields, m) = {} THEN NotFound
                ELSE /\ resolved.kind = "Field"
                     /\ resolved.type = t
                     /\ resolved.field \in Named(t.fields, m)
                     /\ DOMAIN resolved = {"kind", "type", "field"}

C16_Witness ==
  /\ Resolved
  /\ node = MemberCoordinateNode(<<"a">>, <<"_", "1">>)
  /\ resolved.kind = "InputField"
  /\ resolved.inputField = [name |-> <<"_", "1">>, owner |-> <<"a">>]

\* C17: resolving an ArgumentCoordinate raises, and does not return not-found,
\* when the type is absent, when it is no Object or Interface type, and when it
\* has no field named fieldName.
C17_ArgumentPathRaises ==
  (Resolved /\ node.kind = "ArgumentCoordinate") =>
     /\ RootTypes = {} => Threw
     /\ \A t \in RootTypes :
          /\ t.kind \notin {"Object", "Interface"} => Threw
          /\ (t.kind \in {"Object", "Interface"}
                /\ Named(t.fields, node.fieldName.value) = {}) => Threw

C17_Witness ==
  /\ Resolved
  /\ node.kind = "ArgumentCoordinate"
  /\ \E t \in RootTypes :
       /\ t.kind = "Object"
       /\ t.fields # << >>
       /\ Named(t.fields, node.fieldName.value) = {}
  /\ Threw

\* C18: when the type is an Object or Interface type with the named field, an
\* ArgumentCoordinate gives FieldArgument with the type, the field and the
\* first argument of the field that bears argumentName, and not-found when the
\* field has no such argument.
C18_FieldArgumentFound ==
  (Resolved /\ node.kind = "ArgumentCoordinate") =>
     \A t \in RootTypes :
       t.kind \in {"Object", "Interface"} =>
         \A f \in Named(t.fields, node.fieldName.value) :
           IF Named(f.args, node.argumentName.value) = {} THEN NotFound
           ELSE /\ resolved.kind = "FieldArgument"
                /\ resolved.type = t
                /\ resolved.field = f
                /\ IsFirstNamed(resolved.fieldArgument, f.args, node.argumentName.value)
                /\ DOMAIN resolved = {"kind", "type", "field", "fieldArgument"}

C18_Witness ==
  /\ Resolved
  /\ node = ArgumentCoordinateNode(<<"a">>, <<"a">>, <<"_", "1">>)
  /\ resolved.kind = "FieldArgument"
  /\ Len(resolved.field.args) = 2
  /\ resolved.fieldArgument = resolved.field.args[2]

\* C19: resolving a DirectiveArgumentCoordinate raises when the directive is
\* absent; for an existing directive it gives DirectiveArgument with the
\* directive and its argument that bears argumentName, and not-found when the
\* directive has no such argument.
C19_DirectiveArgument ==
  (Resolved /\ node.kind = "DirectiveArgumentCoordinate") =>
     /\ RootDirectives = {} => Threw
     /\ \A d \in RootDirectives :
          IF Named(d.args, node.argumentName.value) = {} THEN NotFound
          ELSE /\ resolved.kind = "DirectiveArgument"
               /\ resolved.directive = d
               /\ IsFirstNamed(resolved.directiveArgument, d.args, node.argumentName.value)
               /\ DOMAIN resolved = {"kind", "directive", "directiveArgument"}

C19_Witness ==
  /\ Resolved
  /\ node.kind = "DirectiveArgumentCoordinate"
  /\ RootDirectives = {}
  /\ schema.directives # {}
  /\ Threw

\* C20: a TypeCoordinate gives NamedType with the type of that name, a
\* DirectiveCoordinate gives Directive with the directive of that name, each
\* gives not-found when there is none, and neither raises.
C20_SingleSegmentNeverRaises ==
  /\ (Resolved /\ node.kind = "TypeCoordinate") =>
        /\ ~Threw
        /\ RootTypes = {} => NotFound
        /\ \A t \in RootTypes : resolved = [kind |-> "NamedType", type |-> t]
  /\ (Resolved /\ node.kind = "DirectiveCoordinate") =>
        /\ ~Threw
        /\ RootDirectives = {} => NotFound
        /\ \A d \in RootDirectives : resolved = [kind |-> "Directive", directive |-> d]

C20_Witness ==
  /\ Resolved
  /\ node.kind = "DirectiveCoordinate"
  /\ RootDirectives = {}
  /\ NotFound

\* the first Name of the node names nothing in the schema
RootAbsent ==
  IF node.kind \in {"DirectiveCoordinate", "DirectiveArgumentCoordinate"}
  THEN RootDirectives = {}
  ELSE RootTypes = {}

\* C21 as claimed: in each of the five productions a missing root type or
\* root directive gives not-found and no error.
C21_RootMissIsNotFound ==
  (Resolved /\ RootAbsent) => (NotFound /\ ~Threw)

\* C21 as amended: a missing root gives not-found for a TypeCoordinate and a
\* DirectiveCoordinate, and raises an error for a MemberCoordinate, an
\* ArgumentCoordinate and a DirectiveArgumentCoordinate.
C21_RootMissBySegments ==
  (Resolved /\ RootAbsent) =>
     IF node.kind \in {"TypeCoordinate", "DirectiveCoordinate"}
     THEN NotFound
     ELSE Threw /\ ~NotFound

C21_Witness ==
  /\ Resolved
  /\ RootAbsent
  /\ node.kind = "MemberCoordinate"
  /\ schema.types # {}
  /\ Threw

\* a lookup below an existing root fails: the member of a type that can hold
\* members, the field or the argument of an ArgumentCoordinate, the argument
\* of a directive
MemberMissing ==
  /\ node.kind = "MemberCoordinate"
  /\ \E t \in RootTypes :
       \/ t.kind = "Enum" /\ Named(t.values, node.memberName.value) = {}
       \/ t.kind \in {"InputObject", "Object", "Interface"}
            /\ Named(t.fields, node.memberName.value) = {}

FieldMissing ==
  /\ node.kind = "ArgumentCoordinate"
  /\ \E t \in RootTypes :
       t.kind \in {"Object", "Interface"} /\ Named(t.fields, node.fieldName.value) = {}

FieldArgumentMissing ==
  /\ node.kind = "ArgumentCoordinate"
  /\ \E t \in RootTypes :
       /\ t.kind \in {"Object", "Interface"}
       /\ \E f \in Named(t.fields, node.fieldName.value) :
            Named(f.args, node.argumentName.value) = {}

DirectiveArgumentMissing ==
  /\ node.kind = "DirectiveArgumentCoordinate"
  /\ \E d \in RootDirectives : Named(d.args, node.argumentName.value) = {}

\* C22 as claimed: below an existing root every failed lookup of a field or
\* of an argument raises an error.
C22_DependentMissRaises ==
  (Resolved /\ (MemberMissing \/ FieldMissing \/ FieldArgumentMissing
                  \/ DirectiveArgumentMissing)) => Threw

\* C22 as amended: below an existing root only the missing field of an
\* ArgumentCoordinate raises an error; a missing last Name (the member of a
\* MemberCoordinate, the argument of an ArgumentCoordinate or of a
\* DirectiveArgumentCoordinate) gives not-found.
C22_OnlyIntermediateMissRaises ==
  /\ (Resolved /\ FieldMissing) => Threw
  /\ (Resolved /\ (MemberMissing \/ FieldArgumentMissing \/ DirectiveArgumentMissing)) =>
        NotFound

C22_Witness ==
  /\ Resolved
  /\ MemberMissing
  /\ \E t \in RootTypes : t.kind = "Object" /\ t.fields # << >>
  /\ NotFound

(***************************************************************************)
(* parseSchemaCoordinate against the token stream of the lexer (SpecParse). *)
(***************************************************************************)
\* every token of the body between SOF and EOF, when the whole body lexes
Lexes == ~IsError(tokensFrom(body, 0)[Len(tokensFrom(body, 0))])

InnerTokens == SubSeq(tokensFrom(body, 0), 1, Len(tokensFrom(body, 0)) - 1)

TokenKinds == [i \in 1..Len(InnerTokens) |-> InnerTokens[i].kind]

IsNameToken(t) == t.kind = "Name"

NameValues == [i \in 1..Len(SelectSeq(InnerTokens, IsNameToken)) |->
                 SelectSeq(InnerTokens, IsNameToken)[i].value]

\* the production of a sequence of token kinds, "none" when it is none of the five
ProductionOf(kinds) ==
  CASE kinds = <<"Name">> -> "TypeCoordinate"
    [] kinds = <<"Name", ".", "Name">> -> "MemberCoordinate"
    [] kinds = <<"Name", ".", "Name", "(", "Name", ":", ")">> -> "ArgumentCoordinate"
    [] kinds = <<"@", "Name">> -> "DirectiveCoordinate"
    [] kinds = <<"@", "Name", "(", "Name", ":", ")">> -> "DirectiveArgumentCoordinate"
    [] OTHER -> "none"

\* the Names of a node in the order of the text
NameSeqOf(n) ==
  CASE n.kind \in {"TypeCoordinate", "DirectiveCoordinate"} -> <<n.name.value>>
    [] n.kind = "MemberCoordinate" -> <<n.name.value, n.memberName.value>>
    [] n.kind = "ArgumentCoordinate" ->
         <<n.name.value, n.fieldName.value, n.argumentName.value>>
    [] n.kind = "DirectiveArgumentCoordinate" -> <<n.name.value, n.argumentName.value>>

C26_DoubleAtIsTypeCoordinate ==
  (Parsed /\ body = <<"@", "@", "a">>) => node = TypeCoordinateNode(<<"a">>)

(***************************************************************************)
(* The lexer's state across advance() (SpecLex).                           *)
(***************************************************************************)
\* C28: an advance() that throws leaves the current token and lastToken as
\* they were before the call (and the chain with them).
C28_FailedAdvanceLeavesState ==
  [][(ret'.op = "advance" /\ IsError(ret'.value)) =>
       /\ tokenIdx' = tokenIdx
       /\ lastIdx' = lastIdx
       /\ chain' = chain]_vars

\* the chain only grows: no token of it is removed or changed
ChainAppendOnly ==
  /\ Len(chain') >= Len(chain)
  /\ \A i \in 1..Len(chain) : chain'[i] = chain[i]

\* the new current token is linked behind lastToken, begins where lastToken
\* ends, lies within the body and is not empty unless it is EOF
LinkedBehindLast ==
  /\ tokenIdx' = lastIdx' + 1
  /\ chain'[tokenIdx'] = ret'.value
  /\ chain'[tokenIdx'].start = chain'[lastIdx'].end
  /\ 0 <= chain'[tokenIdx'].start
  /\ chain'[tokenIdx'].start <= chain'[tokenIdx'].end
  /\ chain'[tokenIdx'].end <= Len(body)
  /\ chain'[tokenIdx'].kind # "<EOF>" => chain'[tokenIdx'].end > chain'[tokenIdx'].start

\* C29 as claimed: after every advance() that returns a token, lastToken is
\* the token that was current, the new current token is linked behind it and
\* begins where it ends, the offsets lie within the body, a token other than
\* EOF is not empty, and the chain only grows.
C29_ChainConsistent ==
  /\ [][(ret'.op = "advance" /\ ~IsError(ret'.value)) =>
          (lastIdx' = tokenIdx /\ LinkedBehindLast)]_vars
  /\ [][ChainAppendOnly]_vars

\* C29 as amended: the same after every advance() that returns a token and was
\* called while the current token was not EOF; an advance() called on the EOF
\* token makes lastToken that EOF token too and links nothing.
C29_ChainConsistentBeforeEOF ==
  /\ [][(ret'.op = "advance" /\ ~IsError(ret'.value)) =>
          /\ lastIdx' = tokenIdx
          /\ IF chain[tokenIdx].kind # "<EOF>"
             THEN LinkedBehindLast
             ELSE tokenIdx' = tokenIdx /\ lastIdx' = tokenIdx' /\ chain' = chain]_vars
  /\ [][ChainAppendOnly]_vars

C29_Witness ==
  /\ body = MemberText(<<"a">>, <<"_", "1">>)
  /\ ret.op = "advance"
  /\ ret.value = chain[tokenIdx]
  /\ tokenIdx = 4
  /\ lastIdx = 3
  /\ chain[4] = createToken("Name", 2, 4, <<"_", "1">>)
  /\ chain[3].end = chain[4].start

C27_ParseThenResolve ==
  ret.op = "resolveSchemaCoordinate" =>
    /\ \A n \in CoordinateNodes :
         body = print(n) =>
           /\ resolved = resolveASTSchemaCoordinate(schema, n)
           /\ lookups = lookupsOf(schema, n)
    /\ (~Lexes \/ ProductionOf(TokenKinds) = "none") =>
         /\ IsError(resolved)
         /\ lookups = << >>

C27_Witness ==
  /\ ret.op = "resolveSchemaCoordinate"
  /\ body = <<"a", ".", "a", ".", "a">>
  /\ schema.types # {}
  /\ IsError(resolved)
  /\ lookups = << >>

====
